---------------------------- MODULE Spec2Model ----------------------------
(***************************************************************************)
(* PDF structure extraction (src/main.py, class PDFStructureExtractor).    *)
(*                                                                         *)
(* A text is a sequence of characters, each character a one-element        *)
(* string; the three non-ASCII characters the patterns name are written    *)
(* "EURO", "POUND" and "BULLET".  Every regular expression of the source   *)
(* is an operator that decides the same language on these sequences.       *)
(* Font sizes are whole points: every comparison of the source is of a     *)
(* difference of sizes against a whole number of points, which a           *)
(* fractional size decides as its integer part does.                       *)
(***************************************************************************)
EXTENDS Integers, Sequences, FiniteSets, TLC

VARIABLES
    num_pages,        \* pages of the document walked so far (page_num = num_pages - 1)
    text_blocks,      \* analyze_document_structure: text_blocks
    font_stats,       \* analyze_document_structure: font_stats, in insertion order
    body_font_size,   \* analysis["body_font_size"]
    form_indicators,  \* extract_text_with_structure: form_indicators
    is_form_document, \* extract_text_with_structure: is_form_document
    outline,          \* extract_text_with_structure: outline
    title,            \* extract_text_with_structure: title
    pc,               \* position of the extraction run
    h_text,           \* is_likely_heading: argument text
    h_atoms,          \* pieces the text was composed of
    h_font_size,      \* is_likely_heading: argument font_size
    h_flags,          \* is_likely_heading: argument flags
    h_body,           \* is_likely_heading: argument body_font_size
    h_result,         \* is_likely_heading: returned pair
    h_pc              \* position of the classifier run

vars == <<num_pages, text_blocks, font_stats, body_font_size, form_indicators,
          is_form_document, outline, title, pc,
          h_text, h_atoms, h_font_size, h_flags, h_body, h_result, h_pc>>

doc_vars == <<num_pages, text_blocks, font_stats, body_font_size, form_indicators,
              is_form_document, outline, title, pc>>

h_vars == <<h_text, h_atoms, h_font_size, h_flags, h_body, h_result, h_pc>>

-----------------------------------------------------------------------------
(* Character classes of Python's re and str on the modelled alphabet *)

UpperSeq == <<"A","B","C","D","E","F","G","H","I","J","K","L","M","N","O","P","Q","R","S","T","U","V","W","X","Y","Z">>

LowerSeq == <<"a","b","c","d","e","f","g","h","i","j","k","l","m","n","o","p","q","r","s","t","u","v","w","x","y","z">>

UpperSet == {UpperSeq[i] : i \in 1..Len(UpperSeq)}

LowerSet == {LowerSeq[i] : i \in 1..Len(LowerSeq)}

DigitSet == {"0", "1", "2", "3", "4", "5", "6", "7", "8", "9"}

SpaceSet == {" ", "\t", "\n"}

AlphaSet == UpperSet \cup LowerSet

WordSet == AlphaSet \cup DigitSet \cup {"_"}

RomanSet == {"I", "V", "X"}

\* str.lower() of one character (re.IGNORECASE compares case-folded characters)
LowerOf == [c \in UpperSet |-> LowerSeq[CHOOSE i \in 1..Len(UpperSeq) : UpperSeq[i] = c]]

LowerChar(c) == IF c \in UpperSet THEN LowerOf[c] ELSE c

-----------------------------------------------------------------------------
(* Primitives the patterns are built from *)

\* first position >= i whose character is outside S (past the end if none): a greedy S*
RunEnd(t, i, S) ==
    IF \E j \in i..Len(t) : t[j] \notin S
    THEN CHOOSE j \in i..Len(t) : t[j] \notin S /\ \A k \in i..(j - 1) : t[k] \in S
    ELSE IF i > Len(t) THEN i
    ELSE Len(t) + 1

\* the literal lit occurs in t at position i
HasAt(t, i, lit) ==
    /\ i >= 1
    /\ i + Len(lit) - 1 <= Len(t)
    /\ \A k \in 1..Len(lit) : t[i + k - 1] = lit[k]

\* the same, under re.IGNORECASE
HasAtI(t, i, lit) ==
    /\ i >= 1
    /\ i + Len(lit) - 1 <= Len(t)
    /\ \A k \in 1..Len(lit) : LowerChar(t[i + k - 1]) = LowerChar(lit[k])

\* "$" without re.MULTILINE: the end of the text, or just before a final newline
AtEnd(t, i) == i = Len(t) + 1 \/ (i = Len(t) /\ t[i] = "\n")

IsWordAt(t, i) == i >= 1 /\ i <= Len(t) /\ t[i] \in WordSet

\* "\b" between positions i - 1 and i
WordBoundary(t, i) == IsWordAt(t, i - 1) # IsWordAt(t, i)

AllIn(t, i, j, S) == \A k \in i..j : t[k] \in S

\* str.startswith, str.endswith, the in operator on strings
startswith(t, lit) == HasAt(t, 1, lit)

endswith(t, lit) == HasAt(t, Len(t) - Len(lit) + 1, lit)

endswith_any(t, cs) == Len(t) >= 1 /\ t[Len(t)] \in cs

Contains(t, lit) == \E i \in 1..(Len(t) + 1) : HasAt(t, i, lit)

\* str.strip(): whitespace removed at both ends
strip(t) ==
    LET a == RunEnd(t, 1, SpaceSet)
    IN  IF a > Len(t) THEN << >>
        ELSE LET b == CHOOSE j \in a..Len(t) :
                        /\ t[j] \notin SpaceSet
                        /\ \A k \in (j + 1)..Len(t) : t[k] \in SpaceSet
             IN  SubSeq(t, a, b)

\* str.split(): the maximal runs of non-whitespace characters, in order
RECURSIVE SplitFrom(_, _)
SplitFrom(t, i) ==
    LET a == RunEnd(t, i, SpaceSet)
    IN  IF a > Len(t) THEN << >>
        ELSE LET b == CHOOSE j \in (a + 1)..(Len(t) + 1) :
                        /\ (j = Len(t) + 1 \/ t[j] \in SpaceSet)
                        /\ \A k \in a..(j - 1) : t[k] \notin SpaceSet
             IN  <<SubSeq(t, a, b - 1)>> \o SplitFrom(t, b)

split(t) == SplitFrom(t, 1)

\* ' '.join(words)
RECURSIVE join(_)
join(words) ==
    IF Len(words) = 0 THEN << >>
    ELSE IF Len(words) = 1 THEN words[1]
    ELSE words[1] \o <<" ">> \o join(Tail(words))

\* str.count(sub): non-overlapping occurrences, scanning left to right
RECURSIVE CountFrom(_, _, _)
CountFrom(t, sub, i) ==
    IF \E j \in i..(Len(t) - Len(sub) + 1) : HasAt(t, j, sub)
    THEN LET first == CHOOSE j \in i..(Len(t) - Len(sub) + 1) :
                          /\ HasAt(t, j, sub)
                          /\ \A k \in i..(j - 1) : ~HasAt(t, k, sub)
         IN  1 + CountFrom(t, sub, first + Len(sub))
    ELSE 0

count(t, sub) == CountFrom(t, sub, 1)

-----------------------------------------------------------------------------
(* Patterns of is_likely_heading *)

\* \s+[A-Z] at position s
SpacesThenUpper(t, s) ==
    LET b == RunEnd(t, s, SpaceSet)
    IN  b > s /\ b <= Len(t) /\ t[b] \in UpperSet

\* ^\d+\.\s+[A-Z]        (also the first form signature)
NumberedLabel(t) ==
    LET a == RunEnd(t, 1, DigitSet)
    IN  a > 1 /\ a <= Len(t) /\ t[a] = "." /\ SpacesThenUpper(t, a + 1)

\* \b(Rs\.|USD|\$|€|£|%)\s*$   (re.search)
CurrencySuffix(t) ==
    \E i \in 1..Len(t) :
        /\ WordBoundary(t, i)
        /\ \E lit \in {<<"R","s",".">>, <<"U","S","D">>, <<"$">>, <<"EURO">>, <<"POUND">>, <<"%">>} :
              /\ HasAt(t, i, lit)
              /\ AllIn(t, i + Len(lit), Len(t), SpaceSet)

\* ^\d+[\.\,]\d+          (re.search, anchored)
DecimalValue(t) ==
    LET a == RunEnd(t, 1, DigitSet)
    IN  /\ a > 1
        /\ a + 1 <= Len(t)
        /\ t[a] \in {".", ","}
        /\ t[a + 1] \in DigitSet

\* \d{1,2}[/-]\d{1,2}[/-]\d{2,4} starting at i: the positions just after a match
DateEnds(t, i) ==
    {e \in (i + 6)..(Len(t) + 1) :
        \E a \in 1..2 :
            /\ AllIn(t, i, i + a - 1, DigitSet)
            /\ t[i + a] \in {"/", "-"}
            /\ \E b \in 1..2 :
                  /\ AllIn(t, i + a + 1, i + a + b, DigitSet)
                  /\ t[i + a + b + 1] \in {"/", "-"}
                  /\ e - (i + a + b + 2) \in 2..4
                  /\ AllIn(t, i + a + b + 2, e - 1, DigitSet)}

\* \b\d{1,2}[/-]\d{1,2}[/-]\d{2,4}\b   (re.search)
DatePattern(t) ==
    \E i \in 1..Len(t) :
        /\ t[i] \in DigitSet
        /\ WordBoundary(t, i)
        /\ \E e \in DateEnds(t, i) : WordBoundary(t, e)

FieldNouns ==
    {<<"N","a","m","e">>, <<"D","e","s","i","g","n","a","t","i","o","n">>, <<"D","a","t","e">>, <<"A","m","o","u","n","t">>, <<"A","d","d","r","e","s","s">>, <<"A","g","e">>, <<"G","e","n","d","e","r">>,
     <<"P","h","o","n","e">>, <<"E","m","a","i","l">>, <<"I","D">>, <<"N","u","m","b","e","r">>}

\* \b(w1|w2|...)\b        (re.search)
HasWord(t, ws) ==
    \E i \in 1..Len(t) :
        /\ WordBoundary(t, i)
        /\ \E w \in ws : t[i] = w[1] /\ HasAt(t, i, w) /\ WordBoundary(t, i + Len(w))

\* ^<word>\s+<one of S>
WordThen(t, w, S) ==
    /\ HasAt(t, 1, w)
    /\ LET b == RunEnd(t, Len(w) + 1, SpaceSet)
       IN  b > Len(w) + 1 /\ b <= Len(t) /\ t[b] \in S

\* ^<word>$
WholeText(t, w) == HasAt(t, 1, w) /\ AtEnd(t, Len(w) + 1)

\* ^[A-Z][A-Z\s]{5,}$
StrongAllCaps(t) ==
    /\ Len(t) >= 6
    /\ t[1] \in UpperSet
    /\ AllIn(t, 2, Len(t), UpperSet \cup SpaceSet)

\* ^[IVX]+\.\s+[A-Z]
RomanNumeral(t) ==
    LET a == RunEnd(t, 1, RomanSet)
    IN  a > 1 /\ a <= Len(t) /\ t[a] = "." /\ SpacesThenUpper(t, a + 1)

\* ^Table\s+of\s+Contents$ ; with ic, under re.IGNORECASE
TableOfContents(t, ic) ==
    LET Has(i, lit) == IF ic THEN HasAtI(t, i, lit) ELSE HasAt(t, i, lit)
    IN  /\ Has(1, <<"T","a","b","l","e">>)
        /\ LET a == RunEnd(t, 6, SpaceSet)
           IN  /\ a > 6
               /\ Has(a, <<"o","f">>)
               /\ LET b == RunEnd(t, a + 2, SpaceSet)
                  IN  /\ b > a + 2
                      /\ Has(b, <<"C","o","n","t","e","n","t","s">>)
                      /\ AtEnd(t, b + 8)

\* ^Acknowledgements?$ ; with ic, under re.IGNORECASE
Acknowledgements(t, ic) ==
    LET Has(i, lit) == IF ic THEN HasAtI(t, i, lit) ELSE HasAt(t, i, lit)
    IN  /\ Has(1, <<"A","c","k","n","o","w","l","e","d","g","e","m","e","n","t">>)
        /\ \/ AtEnd(t, 16)
           \/ Has(16, <<"s">>) /\ AtEnd(t, 17)

\* strong_patterns: the n-th pattern of the list matches t
strong_patterns(t, n) ==
        CASE n = 1 -> StrongAllCaps(t)
          [] n = 2 -> WordThen(t, <<"C","h","a","p","t","e","r">>, DigitSet)
          [] n = 3 -> WordThen(t, <<"S","e","c","t","i","o","n">>, DigitSet)
          [] n = 4 -> WordThen(t, <<"P","a","r","t">>, DigitSet)
          [] n = 5 -> RomanNumeral(t)
          [] n = 6 -> WordThen(t, <<"A","p","p","e","n","d","i","x">>, UpperSet \cup DigitSet)
          [] n = 7 -> \E w \in {<<"A","b","s","t","r","a","c","t">>, <<"S","u","m","m","a","r","y">>, <<"I","n","t","r","o","d","u","c","t","i","o","n">>,
                                <<"C","o","n","c","l","u","s","i","o","n">>, <<"R","e","f","e","r","e","n","c","e","s">>} : WholeText(t, w)
          [] n = 8 -> \/ TableOfContents(t, FALSE)
                      \/ Acknowledgements(t, FALSE)
                      \/ WholeText(t, <<"B","i","b","l","i","o","g","r","a","p","h","y">>)

\* ([A-Z][a-z]+ then (\s+[A-Z][a-z]+)* then $), the word starting at i
RECURSIVE TitleWordsFrom(_, _)
TitleWordsFrom(t, i) ==
    /\ i <= Len(t)
    /\ t[i] \in UpperSet
    /\ LET j == RunEnd(t, i + 1, LowerSet)
       IN  /\ j > i + 1
           /\ \/ AtEnd(t, j)
              \/ LET k == RunEnd(t, j, SpaceSet)
                 IN  k > j /\ TitleWordsFrom(t, k)

\* ^[A-Z][a-z]+(\s+[A-Z][a-z]+)*$
TitleCase(t) == TitleWordsFrom(t, 1)

\* (\s+[a-z]+)*:$ from position j
RECURSIVE LowerWordsColonFrom(_, _)
LowerWordsColonFrom(t, j) ==
    \/ j <= Len(t) /\ t[j] = ":" /\ AtEnd(t, j + 1)
    \/ LET k == RunEnd(t, j, SpaceSet)
           m == RunEnd(t, k, LowerSet)
       IN  k > j /\ m > k /\ LowerWordsColonFrom(t, m)

\* ^[A-Z][a-z]+(\s+[a-z]+)*:$
ColonHeading(t) ==
    /\ Len(t) >= 1
    /\ t[1] \in UpperSet
    /\ LET j == RunEnd(t, 2, LowerSet)
       IN  j > 2 /\ LowerWordsColonFrom(t, j)

\* ^\d+\.\d+\s+           (the prefix of a section number)
SectionNumberPrefix(t) ==
    LET a == RunEnd(t, 1, DigitSet)
    IN  /\ a > 1
        /\ a <= Len(t)
        /\ t[a] = "."
        /\ LET b == RunEnd(t, a + 1, DigitSet)
           IN  b > a + 1 /\ RunEnd(t, b, SpaceSet) > b

\* ^\d+\.\d+\s+[A-Z]
SectionNumber(t) ==
    /\ SectionNumberPrefix(t)
    /\ LET a == RunEnd(t, 1, DigitSet)
           b == RunEnd(t, a + 1, DigitSet)
           c == RunEnd(t, b, SpaceSet)
       IN  c <= Len(t) /\ t[c] \in UpperSet

\* ^[A-Z][^.]{8,50}$
MediumPhrase(t) ==
    /\ Len(t) >= 1
    /\ t[1] \in UpperSet
    /\ \/ (Len(t) - 1) \in 8..50 /\ \A k \in 2..Len(t) : t[k] # "."
       \/ /\ (Len(t) - 2) \in 8..50
          /\ t[Len(t)] = "\n"
          /\ \A k \in 2..(Len(t) - 1) : t[k] # "."

\* medium_patterns: the n-th pattern of the list matches t
medium_patterns(t, n) ==
        CASE n = 1 -> TitleCase(t)
          [] n = 2 -> SectionNumber(t)
          [] n = 3 -> ColonHeading(t)
          [] n = 4 -> MediumPhrase(t)

\* ^\d+\)\s+[A-Z]
NumberedItem(t) ==
    LET a == RunEnd(t, 1, DigitSet)
    IN  a > 1 /\ a <= Len(t) /\ t[a] = ")" /\ SpacesThenUpper(t, a + 1)

\* ^[a-z]\)\s+[A-Z]
LetteredItem(t) ==
    Len(t) >= 2 /\ t[1] \in LowerSet /\ t[2] = ")" /\ SpacesThenUpper(t, 3)

\* weak_patterns: the n-th pattern of the list matches t
weak_patterns(t, n) ==
        CASE n = 1 -> Len(t) >= 1 /\ t[1] = "BULLET" /\ SpacesThenUpper(t, 2)
          [] n = 2 -> Len(t) >= 1 /\ t[1] = "o" /\ SpacesThenUpper(t, 2)
          [] n = 3 -> NumberedItem(t)
          [] n = 4 -> LetteredItem(t)

-----------------------------------------------------------------------------
(* is_likely_heading *)

\* flags & 2**4
is_bold(flags) == (flags \div 16) % 2 = 1

\* the content filters of lines 103-119: any one rejects the block
FieldFilter(text) ==
    \/ CurrencySuffix(text)
    \/ endswith(text, <<"?">>) /\ Len(text) > 30
    \/ DecimalValue(text)
    \/ DatePattern(text)
    \/ Len(text) > 200
    \/ NumberedLabel(text)
    \/ endswith(text, <<":">>) /\ Len(text) > 25
    \/ HasWord(text, FieldNouns) /\ Len(text) < 50

\* all(word[0].isupper() if word and word[0].isalpha() else True for word in words)
AllWordsCapitalized(words) ==
    \A n \in 1..Len(words) :
        (Len(words[n]) > 0 /\ words[n][1] \in AlphaSet) => words[n][1] \in UpperSet

\* StrongLevel with the first threshold one point too high
StrongLevel_h1_from_5(font_diff, flags) ==
    IF font_diff >= 5 THEN 1
    ELSE IF font_diff >= 1 \/ is_bold(flags) THEN 2
    ELSE 3

\* StrongLevel with the levels counted from 0
StrongLevel_from_0(font_diff, flags) ==
    IF font_diff >= 4 THEN 0
    ELSE IF font_diff >= 1 \/ is_bold(flags) THEN 1
    ELSE 2

\* the level the strong tier gives
StrongLevel(font_diff, flags) ==
    IF font_diff >= 4 THEN 1
    ELSE IF font_diff >= 1 \/ is_bold(flags) THEN 2
    ELSE 3

\* MediumLevel with the second threshold one point too low
MediumLevel_h2_from_0(text, font_diff, flags) ==
    IF SectionNumberPrefix(text) THEN 2
    ELSE IF font_diff >= 3 THEN 1
    ELSE IF font_diff >= 0 \/ is_bold(flags) THEN 2
    ELSE 3

\* the level the medium tier gives
MediumLevel(text, font_diff, flags) ==
    IF SectionNumberPrefix(text) THEN 2
    ELSE IF font_diff >= 3 THEN 1
    ELSE IF font_diff >= 1 \/ is_bold(flags) THEN 2
    ELSE 3

\* the level the general title-case check gives
GeneralLevel(font_diff) ==
    IF font_diff >= 4 THEN 1
    ELSE IF font_diff >= 2 THEN 2
    ELSE 3

\* the general title-case check of lines 185-190
GeneralTitleCase(text, font_diff, flags) ==
    LET words == split(text)
    IN  /\ Len(words) <= 10
        /\ Len(words) >= 2
        /\ AllWordsCapitalized(words)
        /\ ~endswith(text, <<".">>)
        /\ (font_diff >= 1 \/ is_bold(flags))

\* the single-short-word filter of lines 122-126
SingleWordFilter(text, font_diff, flags) ==
    LET single_words == split(text)
    IN  /\ Len(single_words) = 1
        /\ Len(single_words[1]) <= 10
        /\ ~(font_diff >= 2 \/ is_bold(flags))

\* is_likely_heading(text, font_size, flags, body_font_size): <<is_heading, level>>
is_likely_heading(text, font_size, flags, body) ==
    LET font_diff == font_size - body
    IN  IF Len(text) > 150 THEN <<FALSE, 0>>
        ELSE IF endswith_any(text, {".", ":", ";", ",", "!", "?"}) /\ Len(text) > 50
            THEN <<FALSE, 0>>
        ELSE IF Len(strip(text)) <= 3 THEN <<FALSE, 0>>
        ELSE IF FieldFilter(text) THEN <<FALSE, 0>>
        ELSE IF SingleWordFilter(text, font_diff, flags) THEN <<FALSE, 0>>
        ELSE IF \E n \in 1..8 : strong_patterns(text, n)
            THEN <<TRUE, StrongLevel(font_diff, flags)>>
        ELSE IF \E n \in 1..4 : medium_patterns(text, n)
            THEN <<TRUE, MediumLevel(text, font_diff, flags)>>
        ELSE IF (\E n \in 1..4 : weak_patterns(text, n)) /\ (font_diff >= 1 \/ is_bold(flags))
            THEN <<TRUE, 3>>
        ELSE IF GeneralTitleCase(text, font_diff, flags)
            THEN <<TRUE, GeneralLevel(font_diff)>>
        ELSE <<FALSE, 0>>

-----------------------------------------------------------------------------
(* analyze_document_structure *)

\* font_stats[font_key] = font_stats.get(font_key, 0) + len(text); a dict keeps the
\* order in which its keys were first inserted
AddFontStat(fs, size, flags, n) ==
    IF \E i \in 1..Len(fs) : fs[i].size = size /\ fs[i].flags = flags
    THEN [i \in 1..Len(fs) |->
            IF fs[i].size = size /\ fs[i].flags = flags
            THEN [fs[i] EXCEPT !.chars = @ + n]
            ELSE fs[i]]
    ELSE Append(fs, [size |-> size, flags |-> flags, chars |-> n])

\* max(font_stats.keys(), key=font_stats.get)[0]: the first key, in the dict's order,
\* that carries the greatest count (fs is not empty)
MostUsedSize(fs) ==
    LET i == CHOOSE i \in 1..Len(fs) :
                /\ \A j \in 1..Len(fs) : fs[j].chars <= fs[i].chars
                /\ \A j \in 1..(i - 1) : fs[j].chars < fs[i].chars
    IN  fs[i].size

\* the text block a layout block of one line and one span gives (lines 34-64)
MakeBlock(span, page_num) ==
    [text      |-> strip(span.text),
     page      |-> page_num + 1,
     font_size |-> span.size,
     flags     |-> span.flags,
     length    |-> Len(strip(span.text))]

-----------------------------------------------------------------------------
(* extract_text_with_structure: form detection *)

FormWords ==
    FieldNouns \cup
    {<<"S","e","r","v","a","n","t">>, <<"P","A","Y">>, <<"a","d","v","a","n","c","e">>, <<"p","e","r","m","a","n","e","n","t">>, <<"t","e","m","p","o","r","a","r","y">>, <<"H","o","m","e">>, <<"T","o","w","n">>,
     <<"W","h","e","t","h","e","r">>, <<"g","r","a","n","t">>, <<"L","T","C">>}

\* .*(\.\.\.|___|\s{5,})     (re.search)
FillMarker(t) ==
    \/ Contains(t, <<".",".",".">>)
    \/ Contains(t, <<"_","_","_">>)
    \/ \E i \in 1..(Len(t) - 4) : AllIn(t, i, i + 4, SpaceSet)

\* \bRs\.\s*\d*\s*$          (re.search)
AmountField(t) ==
    \E i \in 1..Len(t) :
        /\ WordBoundary(t, i)
        /\ HasAt(t, i, <<"R","s",".">>)
        /\ LET a == RunEnd(t, i + 3, SpaceSet)
               b == RunEnd(t, a, DigitSet)
           IN  AllIn(t, b, Len(t), SpaceSet)

\* the condition of lines 212-219 on one block
IsFormIndicator(block_text) ==
    LET text == strip(block_text)
    IN  \/ NumberedLabel(text)
        \/ HasWord(text, FormWords)
        \/ endswith(text, <<":">>) /\ Len(text) > 10
        \/ FillMarker(text)
        \/ AmountField(text)
        \/ startswith(text, <<"A","p","p","l","i","c","a","t","i","o","n"," ","f","o","r","m">>)
        \/ startswith(text, <<"F","o","r","m">>)

\* form_indicators after the loop of lines 210-220
CountFormIndicators(blocks) ==
    Cardinality({i \in 1..Len(blocks) : IsFormIndicator(blocks[i].text)})

\* IsFormDocument with the threshold at one half
IsFormDocument_half(form, total_blocks) ==
    total_blocks > 0 /\ 10 * form > 5 * total_blocks

\* total_blocks > 0 and (form_indicators / total_blocks) > 0.4 ; the quotient of two
\* small integers exceeds the double 0.4 exactly when 10 * form > 4 * total
IsFormDocument(form, total_blocks) ==
    total_blocks > 0 /\ 10 * form > 4 * total_blocks

-----------------------------------------------------------------------------
(* extract_text_with_structure: the outline *)

\* str(n) for n >= 0
RECURSIVE DecimalStr(_)
DecimalStr(n) ==
    LET d == <<"0", "1", "2", "3", "4", "5", "6", "7", "8", "9">>[(n % 10) + 1]
    IN  IF n < 10 THEN <<d>> ELSE DecimalStr(n \div 10) \o <<d>>

\* f"H{level}"
LevelStr(level) == <<"H">> \o DecimalStr(level)

\* is_heading of one block, after the form override of lines 239-240
BlockIsHeading(block, body, is_form) ==
    /\ ~is_form
    /\ is_likely_heading(block.text, block.font_size, block.flags, body)[1]

\* the entry lines 244-249 append for a heading block of the given level
OutlineEntry(block, level) ==
    [level |-> LevelStr(level), text |-> block.text, page |-> block.page]

\* the loop of lines 230-249 over blocks[i..]
RECURSIVE BuildOutlineFrom(_, _, _, _)
BuildOutlineFrom(blocks, i, body, is_form) ==
    IF i > Len(blocks) THEN << >>
    ELSE LET r == is_likely_heading(blocks[i].text, blocks[i].font_size,
                                    blocks[i].flags, body)
             is_heading == IF is_form THEN FALSE ELSE r[1]
         IN  IF is_heading
             THEN <<OutlineEntry(blocks[i], r[2])>> \o
                  BuildOutlineFrom(blocks, i + 1, body, is_form)
             ELSE BuildOutlineFrom(blocks, i + 1, body, is_form)

\* BuildOutline keeping only the first entry of each text
RECURSIVE DropRepeatedText(_, _)
DropRepeatedText(entries, seen) ==
    IF Len(entries) = 0 THEN << >>
    ELSE IF entries[1].text \in seen THEN DropRepeatedText(Tail(entries), seen)
    ELSE <<entries[1]>> \o DropRepeatedText(Tail(entries), seen \cup {entries[1].text})

BuildOutline_first_of_each_text(blocks, body, is_form) ==
    DropRepeatedText(BuildOutlineFrom(blocks, 1, body, is_form), {})

\* BuildOutline with the loop starting at the second block
BuildOutline_from_second(blocks, body, is_form) ==
    BuildOutlineFrom(blocks, 2, body, is_form)

BuildOutline(blocks, body, is_form) == BuildOutlineFrom(blocks, 1, body, is_form)

-----------------------------------------------------------------------------
(* extract_text_with_structure: the title *)

\* ^<word>\s+\d+$ under re.IGNORECASE
WordNumberOnly(t, w) ==
    /\ HasAtI(t, 1, w)
    /\ LET a == RunEnd(t, Len(w) + 1, SpaceSet)
           b == RunEnd(t, a, DigitSet)
       IN  a > Len(w) + 1 /\ b > a /\ AtEnd(t, b)

\* ^<word>$ under re.IGNORECASE
WholeTextI(t, w) == HasAtI(t, 1, w) /\ AtEnd(t, Len(w) + 1)

\* .*\d{1,2}[/-]\d{1,2}[/-]\d{2,4}.*   (re.match; "." does not match a newline)
ContainsDateOnFirstLine(t) ==
    \E i \in 1..Len(t) :
        /\ \A k \in 1..(i - 1) : t[k] # "\n"
        /\ t[i] \in DigitSet
        /\ DateEnds(t, i) # {}

\* ^[A-Z]{1,5}$ under re.IGNORECASE
ShortAcronym(t) ==
    LET a == RunEnd(t, 1, AlphaSet)
    IN  \E e \in 2..a : e <= 6 /\ AtEnd(t, e)

\* title_exclusion_patterns: the n-th pattern of the list matches t under
\* re.match(pattern, clean_text, re.IGNORECASE)
title_exclusion_patterns(t, n) ==
        CASE n = 1 -> \/ TableOfContents(t, TRUE)
                      \/ Acknowledgements(t, TRUE)
                      \/ WholeTextI(t, <<"R","e","f","e","r","e","n","c","e","s">>)
                      \/ WholeTextI(t, <<"B","i","b","l","i","o","g","r","a","p","h","y">>)
          [] n = 2 -> SectionNumberPrefix(t)
          [] n = 3 -> /\ HasAtI(t, 1, <<"P","a","g","e">>)
                      /\ LET a == RunEnd(t, 5, SpaceSet)
                         IN  a > 5 /\ a <= Len(t) /\ t[a] \in DigitSet
          [] n = 4 -> \E w \in {<<"C","h","a","p","t","e","r">>, <<"S","e","c","t","i","o","n">>, <<"P","a","r","t">>} : WordNumberOnly(t, w)
          [] n = 5 -> ContainsDateOnFirstLine(t)
          [] n = 6 -> ShortAcronym(t)

\* lines 285-290: consecutive duplicate words removed
RECURSIVE UniqueWords(_, _)
UniqueWords(words, unique_words) ==
    IF Len(words) = 0 THEN unique_words
    ELSE IF Len(unique_words) = 0 \/ words[1] # unique_words[Len(unique_words)]
         THEN UniqueWords(Tail(words), Append(unique_words, words[1]))
         ELSE UniqueWords(Tail(words), unique_words)

\* lines 268-290: clean_text of one block
CleanText(block_text) ==
    LET text == strip(block_text)
        words == split(text)
        pattern_len == Len(words) \div 4
        first_part == join(SubSeq(words, 1, pattern_len))
        clean1 == IF Len(words) > 4 /\ pattern_len > 0 /\ count(text, first_part) > 1
                  THEN first_part
                  ELSE text
    IN  IF Contains(text, <<" ">>)
        THEN join(UniqueWords(split(clean1), << >>))
        ELSE text

\* the condition of lines 292-293
IsTitleCandidate(clean_text) ==
    /\ Len(clean_text) > 5
    /\ Len(clean_text) < 150
    /\ ~\E n \in 1..6 : title_exclusion_patterns(clean_text, n)

\* title_candidates before the sort: (clean_text, font_size, page) in block order
RECURSIVE TitleCandidatesFrom(_, _)
TitleCandidatesFrom(blocks, i) ==
    IF i > Len(blocks) THEN << >>
    ELSE LET clean_text == CleanText(blocks[i].text)
         IN  IF IsTitleCandidate(clean_text)
             THEN <<[text |-> clean_text, font_size |-> blocks[i].font_size,
                     page |-> blocks[i].page]>> \o TitleCandidatesFrom(blocks, i + 1)
             ELSE TitleCandidatesFrom(blocks, i + 1)

\* key=lambda x: (-x[1], x[2]) : c sorts strictly before d
SortsBefore(c, d) ==
    \/ c.font_size > d.font_size
    \/ c.font_size = d.font_size /\ c.page < d.page

\* c put into the sorted s behind every element that does not sort after it
RECURSIVE InsertSorted(_, _)
InsertSorted(s, c) ==
    IF Len(s) = 0 THEN <<c>>
    ELSE IF SortsBefore(c, s[1]) THEN <<c>> \o s
    ELSE <<s[1]>> \o InsertSorted(Tail(s), c)

\* list.sort(key=...): stable
RECURSIVE SortInto(_, _)
SortInto(sorted, rest) ==
    IF Len(rest) = 0 THEN sorted
    ELSE SortInto(InsertSorted(sorted, rest[1]), Tail(rest))

title_candidates(blocks) == SortInto(<< >>, TitleCandidatesFrom(blocks, 1))

\* [c for c in cands if c[2] == 1]
RECURSIVE OnPageOne(_)
OnPageOne(cands) ==
    IF Len(cands) = 0 THEN << >>
    ELSE IF cands[1].page = 1 THEN <<cands[1]>> \o OnPageOne(Tail(cands))
    ELSE OnPageOne(Tail(cands))

\* the loop of lines 308-310 over cands, starting from best_title
RECURSIVE BestTitle(_, _)
BestTitle(best_title, cands) ==
    IF Len(cands) = 0 THEN best_title
    ELSE IF Len(cands[1].text) > Len(best_title) /\
            Contains(cands[1].text, <<"F","o","u","n","d","a","t","i","o","n"," ","L","e","v","e","l">>)
         THEN BestTitle(cands[1].text, Tail(cands))
         ELSE BestTitle(best_title, Tail(cands))

\* lines 252-314: the title the candidates give, "" if there is none
SelectTitle(blocks) ==
    LET cands == title_candidates(blocks)
        page_1_candidates == OnPageOne(cands)
    IN  IF Len(cands) = 0 THEN << >>
        ELSE IF Len(page_1_candidates) > 0
             THEN BestTitle(page_1_candidates[1].text,
                            SubSeq(page_1_candidates, 1,
                                   IF Len(page_1_candidates) < 3
                                   THEN Len(page_1_candidates) ELSE 3))
             ELSE cands[1].text

\* next((item for item in outline if item["level"] == "H1"), None): its index, 0 for None
FirstH1(entries) ==
    IF \E i \in 1..Len(entries) : entries[i].level = <<"H","1">>
    THEN CHOOSE i \in 1..Len(entries) :
            /\ entries[i].level = <<"H","1">>
            /\ \A j \in 1..(i - 1) : entries[j].level # <<"H","1">>
    ELSE 0

\* FallbackTitle without the first-H1 fallback
FallbackTitle_default_only(found, entries) ==
    IF Len(found) = 0 THEN <<"D","o","c","u","m","e","n","t">> ELSE found

\* lines 316-324: the two fallbacks
FallbackTitle(found, entries) ==
    LET first_h1 == FirstH1(entries)
        t1 == IF Len(found) = 0 /\ Len(entries) > 0 /\ first_h1 > 0
              THEN entries[first_h1].text
              ELSE found
    IN  IF Len(t1) = 0 THEN <<"D","o","c","u","m","e","n","t">> ELSE t1

-----------------------------------------------------------------------------
(* The documents the extraction is run on *)

MaxPages == 2

MaxBlocks == 5

\* the text runs a layout block can hold: a dated form field, a bold title-case
\* phrase, a structural heading, and a run of whitespace only
Spans ==
    {[text |-> <<"D","a","t","e",":"," ","1","2","/","0","1","/","2","0","2","0"," ",".",".",".",".",".",".">>, size |-> 12, flags |-> 0],
     [text |-> <<"F","o","u","n","d","a","t","i","o","n"," ","L","e","v","e","l">>,        size |-> 13, flags |-> 16],
     [text |-> <<"C","h","a","p","t","e","r"," ","1">>,               size |-> 16, flags |-> 0],
     [text |-> <<" "," "," ">>,                     size |-> 12, flags |-> 0]}

DocInit ==
    /\ num_pages = 0
    /\ text_blocks = << >>
    /\ font_stats = << >>
    /\ body_font_size = 0
    /\ form_indicators = 0
    /\ is_form_document = FALSE
    /\ outline = << >>
    /\ title = << >>
    /\ pc = "read"

\* line 28: the loop enters the next page of the document
OpenPage ==
    /\ pc = "read"
    /\ num_pages < MaxPages
    /\ num_pages' = num_pages + 1
    /\ UNCHANGED <<text_blocks, font_stats, body_font_size, form_indicators,
                   is_form_document, outline, title, pc>>
    /\ UNCHANGED h_vars

\* lines 32-64: one layout block of the current page (page_num = num_pages - 1),
\* holding one line with one span
ReadBlock(span) ==
    /\ pc = "read"
    /\ num_pages >= 1
    /\ Len(text_blocks) < MaxBlocks
    /\ LET text == strip(span.text)
       IN  IF Len(text) > 0
           THEN /\ font_stats' = AddFontStat(font_stats, span.size, span.flags, Len(text))
                /\ text_blocks' = Append(text_blocks, MakeBlock(span, num_pages - 1))
           ELSE UNCHANGED <<font_stats, text_blocks>>
    /\ UNCHANGED <<num_pages, body_font_size, form_indicators, is_form_document,
                   outline, title, pc>>
    /\ UNCHANGED h_vars

\* lines 66-80: the document is exhausted; max() of an empty dict raises ValueError,
\* which extract_text_with_structure and extract_pdf_data let through
FinishAnalysis ==
    /\ pc = "read"
    /\ IF Len(font_stats) = 0
       THEN /\ pc' = "raised"
            /\ UNCHANGED body_font_size
       ELSE /\ pc' = "analyzed"
            /\ body_font_size' = MostUsedSize(font_stats)
    /\ UNCHANGED <<num_pages, text_blocks, font_stats, form_indicators,
                   is_form_document, outline, title>>
    /\ UNCHANGED h_vars

\* lines 206-223
DetectForm ==
    /\ pc = "analyzed"
    /\ form_indicators' = CountFormIndicators(text_blocks)
    /\ is_form_document' = IsFormDocument(form_indicators', Len(text_blocks))
    /\ pc' = "form_checked"
    /\ UNCHANGED <<num_pages, text_blocks, font_stats, body_font_size, outline, title>>
    /\ UNCHANGED h_vars

\* lines 226-249
AssembleOutline ==
    /\ pc = "form_checked"
    /\ outline' = BuildOutline(text_blocks, body_font_size, is_form_document)
    /\ pc' = "outlined"
    /\ UNCHANGED <<num_pages, text_blocks, font_stats, body_font_size,
                   form_indicators, is_form_document, title>>
    /\ UNCHANGED h_vars

\* lines 251-329
ChooseTitle ==
    /\ pc = "outlined"
    /\ title' = FallbackTitle(SelectTitle(text_blocks), outline)
    /\ pc' = "done"
    /\ UNCHANGED <<num_pages, text_blocks, font_stats, body_font_size,
                   form_indicators, is_form_document, outline>>
    /\ UNCHANGED h_vars

Next ==
    \/ OpenPage
    \/ \E span \in Spans : ReadBlock(span)
    \/ FinishAnalysis
    \/ DetectForm
    \/ AssembleOutline
    \/ ChooseTitle

-----------------------------------------------------------------------------
(* The blocks the classifier is run on *)

MaxAtoms == 3

LongRun == <<" ","l","o","r","e","m"," ","i","p","s","u","m"," ","d","o","l","o","r"," ","s","i","t"," ","a","m","e","t"," ","c","o","n","s","e","c","t","e","t","u","r"," ","a","d","i","p","i","s","c","i","n","g"," ","e","l","i","t"," ","s","e","d"," ","d","o"," ","e","i","u","s","m","o","d"," ","t","e","m","p","o","r">>

\* the pieces a block text is composed of
Atoms ==
    {<<"1",".">>, <<"2",".","1">>, <<"C","h","a","p","t","e","r"," ","1">>, <<" ","I","n","t","r","o","d","u","c","t","i","o","n">>, <<" ","N","a","m","e">>, <<":">>, <<" ","R","E","P","O","R","T">>,
     LongRun}

FontSizes == 11..16

BodySizes == {11, 12}

FlagValues == {0, 4, 16}

HInit ==
    /\ h_text = << >>
    /\ h_atoms = 0
    /\ h_font_size = 0
    /\ h_flags = 0
    /\ h_body = 0
    /\ h_result = <<FALSE, 0>>
    /\ h_pc = "compose"

\* the block text grows by one piece
AppendAtom(a) ==
    /\ h_pc = "compose"
    /\ h_atoms < MaxAtoms
    /\ h_text' = h_text \o a
    /\ h_atoms' = h_atoms + 1
    /\ UNCHANGED <<h_font_size, h_flags, h_body, h_result, h_pc>>
    /\ UNCHANGED doc_vars

\* line 236: is_likely_heading on the text of a block (stripped, not empty: line 53)
Classify(font_size, flags, body) ==
    /\ h_pc = "compose"
    /\ Len(strip(h_text)) > 0
    /\ h_text' = strip(h_text)
    /\ h_font_size' = font_size
    /\ h_flags' = flags
    /\ h_body' = body
    /\ h_result' = is_likely_heading(h_text', font_size, flags, body)
    /\ h_pc' = "classified"
    /\ UNCHANGED h_atoms
    /\ UNCHANGED doc_vars

NextClassify ==
    \/ \E a \in Atoms : AppendAtom(a)
    \/ \E font_size \in FontSizes, flags \in FlagValues, body \in BodySizes :
          Classify(font_size, flags, body)

-----------------------------------------------------------------------------
(* Specifications *)

Init == DocInit /\ HInit

Spec == Init /\ [][Next]_vars

SpecClassify == Init /\ [][NextClassify]_vars

-----------------------------------------------------------------------------
(* Properties of the extraction run *)

OutlineTexts == {outline[k].text : k \in 1..Len(outline)}

\* the blocks the outline loop keeps, in the run's own state
HeadingBlocks ==
    {i \in 1..Len(text_blocks) :
        BlockIsHeading(text_blocks[i], body_font_size, is_form_document)}

\* the blocks is_likely_heading itself classifies as headings
LikelyHeadings ==
    {i \in 1..Len(text_blocks) :
        is_likely_heading(text_blocks[i].text, text_blocks[i].font_size,
                          text_blocks[i].flags, body_font_size)[1]}

\* the unsorted title candidates of the run's blocks
Candidates == TitleCandidatesFrom(text_blocks, 1)

\* C1: a document of zero pages is extracted without an exception, and the result is
\* the title "Document" with an empty outline.
C1_EmptyDocumentGivesDefaults ==
    num_pages = 0 =>
        /\ pc # "raised"
        /\ pc = "done" => (title = <<"D","o","c","u","m","e","n","t">> /\ outline = << >>)

C4_FormFromFortyPercent ==
    (pc = "done" /\ Len(text_blocks) > 0
        /\ 10 * form_indicators >= 4 * Len(text_blocks)) =>
        (is_form_document /\ outline = << >>)

\* C4 as amended: with more than 40% of the blocks matching a form signature the
\* document is a form and the outline is empty, whatever is_likely_heading returns;
\* with exactly 40% it is not a form.
C4_FormAboveFortyPercent ==
    pc = "done" =>
        LET n == Cardinality({i \in 1..Len(text_blocks) :
                                 IsFormIndicator(text_blocks[i].text)})
        IN  /\ 10 * n > 4 * Len(text_blocks) => (is_form_document /\ outline = << >>)
            /\ 10 * n = 4 * Len(text_blocks) => ~is_form_document

\* C4 witness: a finished form document with an empty outline, one of whose blocks
\* is_likely_heading classifies as a heading
C4_Witness ==
    /\ pc = "done"
    /\ is_form_document
    /\ outline = << >>
    /\ LikelyHeadings # {}

\* C8: every outline entry has a level among H1, H2, H3 and a page >= 1; on every
\* block is_likely_heading returns a level in 1..3 with TRUE and level 0 with FALSE,
\* and the pages of the blocks count from 1.
C8_LevelsAndPages ==
    /\ \A k \in 1..Len(outline) :
          outline[k].level \in {<<"H","1">>, <<"H","2">>, <<"H","3">>} /\ outline[k].page >= 1
    /\ \A i \in 1..Len(text_blocks) : text_blocks[i].page >= 1
    /\ pc = "done" =>
          \A i \in 1..Len(text_blocks) :
              LET r == is_likely_heading(text_blocks[i].text, text_blocks[i].font_size,
                                         text_blocks[i].flags, body_font_size)
              IN  IF r[1] THEN r[2] \in 1..3 ELSE r[2] = 0

\* C8 witness: a finished run whose outline holds an H1 and an H2 entry, one entry
\* being on the second page
C8_Witness ==
    /\ pc = "done"
    /\ \E k \in 1..Len(outline) : outline[k].level = <<"H","1">>
    /\ \E k \in 1..Len(outline) : outline[k].level = <<"H","2">>
    /\ \E k \in 1..Len(outline) : outline[k].page = 2

\* C9: the returned title is never empty: it is the text of a title candidate if there
\* is one, otherwise the text of the first H1 entry of the outline if there is one,
\* otherwise "Document".
C9_TitleNeverEmpty ==
    pc = "done" =>
        LET cands == Candidates
        IN  /\ Len(title) > 0
            /\ Len(cands) > 0 => \E c \in 1..Len(cands) : title = cands[c].text
            /\ Len(cands) = 0 =>
                  IF \E k \in 1..Len(outline) : outline[k].level = <<"H","1">>
                  THEN \E k \in 1..Len(outline) :
                          /\ outline[k].level = <<"H","1">>
                          /\ \A j \in 1..(k - 1) : outline[j].level # <<"H","1">>
                          /\ title = outline[k].text
                  ELSE title = <<"D","o","c","u","m","e","n","t">>

\* C9 witness: a finished run without title candidates whose title is the text of the
\* H1 entry of its outline
C9_Witness ==
    /\ pc = "done"
    /\ Len(Candidates) = 0
    /\ \E k \in 1..Len(outline) : outline[k].level = <<"H","1">> /\ title = outline[k].text

-----------------------------------------------------------------------------
(* Properties of the classifier run *)

h_font_diff == h_font_size - h_body

\* a gate ahead of the pattern tiers rejects the text (lines 84-119)
RejectedEarly(text) ==
    \/ Len(text) > 150
    \/ endswith_any(text, {".", ":", ";", ",", "!", "?"}) /\ Len(text) > 50
    \/ Len(strip(text)) <= 3
    \/ FieldFilter(text)

\* the text matches a Title-Case or typographic pattern of the medium tier and no
\* pattern of another kind
OnlyTypographic(text) ==
    /\ ~\E n \in 1..8 : strong_patterns(text, n)
    /\ \E n \in {1, 3, 4} : medium_patterns(text, n)
    /\ ~medium_patterns(text, 2)

\* C5: a text of the form "N.N <Capitalized text>" is classified (True, 2), for every
\* font size, flags value and body font size.
C5_SectionNumberIsH2 ==
    (h_pc = "classified" /\ SectionNumber(h_text)) => h_result = <<TRUE, 2>>

\* C6: a text of the form "N. <Capitalized text>" is classified as a level-1 heading.
C6_NumberedHeadingIsH1 ==
    (h_pc = "classified" /\ NumberedLabel(h_text)) => h_result = <<TRUE, 1>>

\* C7 as claimed: a text matching the ALL-CAPS or a structural pattern, in a font at
\* least 4 points above the body size, is classified (True, 1).
C7_StrongAndLargeIsH1 ==
    (h_pc = "classified" /\ (\E n \in 1..8 : strong_patterns(h_text, n)) /\ h_font_diff >= 4) =>
        h_result = <<TRUE, 1>>

\* C7 as amended: such a text is classified (True, 1) unless a gate ahead of the
\* pattern tiers rejects it (length, terminal punctuation, currency, date, field noun,
\* long colon label), and then it is classified (False, 0).
C7_StrongAndLargeIsH1UnlessRejected ==
    (h_pc = "classified" /\ (\E n \in 1..8 : strong_patterns(h_text, n)) /\ h_font_diff >= 4) =>
        h_result = IF RejectedEarly(h_text) THEN <<FALSE, 0>> ELSE <<TRUE, 1>>

\* C7 witness: a text matching a strong pattern, 4 points above the body size,
\* classified (True, 1)
C7_Witness ==
    /\ h_pc = "classified"
    /\ (\E n \in 1..8 : strong_patterns(h_text, n))
    /\ h_font_diff = 4
    /\ h_result = <<TRUE, 1>>

\* C10 as claimed: a text that only matches a Title-Case or typographic pattern, not
\* bold and less than 1 point above the body size, is classified (False, 0).
C10_PlainTypographicIsNoHeading ==
    (h_pc = "classified" /\ OnlyTypographic(h_text)
        /\ h_font_diff < 1 /\ ~is_bold(h_flags)) =>
        h_result = <<FALSE, 0>>

\* C10 as amended: such a text is classified (True, 3), unless a gate ahead of the
\* pattern tiers or the single-short-word filter rejects it, and then it is
\* classified (False, 0).
C10_PlainTypographicIsH3 ==
    (h_pc = "classified" /\ OnlyTypographic(h_text)
        /\ h_font_diff < 1 /\ ~is_bold(h_flags)) =>
        h_result = IF \/ RejectedEarly(h_text)
                      \/ Len(split(h_text)) = 1 /\ Len(split(h_text)[1]) <= 10
                   THEN <<FALSE, 0>>
                   ELSE <<TRUE, 3>>

\* C10 witness: a plain-sized, not bold text that only matches a typographic pattern
\* and is classified (True, 3)
C10_Witness ==
    /\ h_pc = "classified"
    /\ OnlyTypographic(h_text)
    /\ h_font_diff < 1
    /\ ~is_bold(h_flags)
    /\ h_result = <<TRUE, 3>>

=============================================================================
